---- MODULE Spec2Model ----
(***************************************************************************)
(* A model of the client-side query pipeline of the dashboard:             *)
(*   - DataTable  (components/tambo/data-table.tsx): search, column        *)
(*     filters, tri-state sort, pagination footer;                         *)
(*   - TaskList   (components/tambo/task-list.tsx): search, grouping and   *)
(*     group ordering;                                                     *)
(*   - KanbanBoard (components/tambo/kanban-board.tsx): tasks by column;   *)
(*   - InsightList (components/tambo/insight-card.tsx): sorted cards;      *)
(*   - the task service (services/project-management.ts): getTasks,        *)
(*     createTask, updateTaskStatus over the module-level task store.      *)
(* Strings are sequences of UTF-16 code units, so that toLowerCase,        *)
(* indexOf, trim and String() are computed rather than assumed.            *)
(***************************************************************************)
EXTENDS Integers, Sequences, FiniteSets, TLC

VARIABLES
    data,          \* DataTable prop: the caller's array of rows
    pagination,    \* DataTable prop: {page, pageSize, total} or absent
    sortConfig,    \* DataTable state: {key, direction} or null
    filters,       \* DataTable state: Record<string, string>
    searchTerm,    \* DataTable state
    filteredData,  \* DataTable render: the rows of the table body, as positions of data
    tasks,         \* TaskList prop: the tasks to display
    state,         \* TaskList state: {searchQuery, viewMode, groupBy}
    sections,      \* TaskList render: the group sections, in display order
    renderError,   \* TaskList render: whether the render threw
    insights,      \* InsightList prop: the insights to display
    insightSortBy, \* InsightList prop sortBy
    maxItems,      \* InsightList prop maxItems, 0 when it is not given
    sortedInsights, \* InsightList render: the cards displayed, as positions of insights
    issues,        \* LinearIssueList prop: the issues to display
    issueGroupBy,  \* LinearIssueList prop groupBy
    issueMaxItems, \* LinearIssueList prop maxItems, 0 when it is not given
    groupedIssues, \* LinearIssueList render: the groups displayed, as positions of issues
    kanbanTasks,   \* KanbanBoard prop: the tasks to display
    columns,       \* KanbanBoard prop: the column names
    columnTasks,   \* KanbanBoard render: per column, the tasks in its body, as positions
    mockTasks,     \* task service: the module-level task store
    now,           \* task service: the reading of the clock
    calls,         \* task service: the createTask and updateTaskStatus calls made
    result         \* task service: what the last tool call returned

dtVars == <<data, pagination, sortConfig, filters, searchTerm, filteredData>>

tlVars == <<tasks, state, sections, renderError>>

kbVars == <<kanbanTasks, columns, columnTasks>>

ilVars == <<insights, insightSortBy, maxItems, sortedInsights>>

liVars == <<issues, issueGroupBy, issueMaxItems, groupedIssues>>

pmVars == <<mockTasks, now, calls, result>>

vars == <<dtVars, tlVars, kbVars, ilVars, liVars, pmVars>>

(***************************************************************************)
(* Bounds of the model.                                                    *)
(***************************************************************************)
MaxRows == 2
MaxPage == 2
MaxPageSize == 2
MaxTotal == 3
MaxTasks == 3
MaxCalls == 2
MaxTicks == 1
MaxKanbanTasks == 2
MaxInsights == 2
MaxIssues == 3
MaxMixedRows == 3

\* the defaults of the searchable and sortable props
SearchableProp == TRUE
SortableProp == TRUE

\* the defaults of TaskList's showFilters and searchable props
ShowFiltersProp == TRUE
TaskSearchableProp == TRUE

(***************************************************************************)
(* JavaScript strings and values.                                          *)
(***************************************************************************)
Str_empty == << >>
Str_space == <<32>>
Str_1 == <<49>>
Str_b == <<98>>
Str_A_b == <<65, 32, 98>>
Str_A_d == <<65, 32, 100>>
Str_D == <<68>>
Str_undefined == <<117, 110, 100, 101, 102, 105, 110, 101, 100>>
Str_null == <<110, 117, 108, 108>>
Str_todo == <<116, 111, 100, 111>>
Str_in_progress == <<105, 110, 45, 112, 114, 111, 103, 114, 101, 115, 115>>
Str_review == <<114, 101, 118, 105, 101, 119>>
Str_done == <<100, 111, 110, 101>>
Str_low == <<108, 111, 119>>
Str_medium == <<109, 101, 100, 105, 117, 109>>
Str_high == <<104, 105, 103, 104>>
Str_critical == <<99, 114, 105, 116, 105, 99, 97, 108>>
Str_Uncategorized == <<85, 110, 99, 97, 116, 101, 103, 111, 114, 105, 122, 101, 100>>
Str_All_Tasks == <<65, 108, 108, 32, 84, 97, 115, 107, 115>>
Str_Al == <<65, 108>>
Str_bo == <<98, 111>>
Str_web == <<119, 101, 98>>
Str_App == <<65, 112, 112>>
Str_Fix_ui == <<70, 105, 120, 32, 117, 105>>
Str_Ship == <<83, 104, 105, 112>>
Str_ui == <<117, 105>>
Str_UI == <<85, 73>>
Str_s == <<115>>
Str_task_0 == <<116, 97, 115, 107, 45, 48>>
Str_task_1 == <<116, 97, 115, 107, 45, 49>>
Str_2024_03_01 == <<50, 48, 50, 52, 45, 48, 51, 45, 48, 49>>
Str_task_ == <<116, 97, 115, 107, 45>>
Str_Alice_Chen == <<65, 108, 105, 99, 101, 32, 67, 104, 101, 110>>
Str_Bob_Smith == <<66, 111, 98, 32, 83, 109, 105, 116, 104>>
Str_Carol_Johnson == <<67, 97, 114, 111, 108, 32, 74, 111, 104, 110, 115, 111, 110>>
Str_David_Kim == <<68, 97, 118, 105, 100, 32, 75, 105, 109>>
Str_Eva_Martinez == <<69, 118, 97, 32, 77, 97, 114, 116, 105, 110, 101, 122>>
Str_Website_Redesign == <<87, 101, 98, 115, 105, 116, 101, 32, 82, 101, 100, 101, 115, 105, 103, 110>>
Str_constructor == <<99, 111, 110, 115, 116, 114, 117, 99, 116, 111, 114>>
Str_toString == <<116, 111, 83, 116, 114, 105, 110, 103>>
Str_valueOf == <<118, 97, 108, 117, 101, 79, 102>>
Str_hasOwnProperty == <<104, 97, 115, 79, 119, 110, 80, 114, 111, 112, 101, 114, 116, 121>>
Str_To_Do == <<84, 111, 32, 68, 111>>
Str_In_Progress == <<73, 110, 32, 80, 114, 111, 103, 114, 101, 115, 115>>
Str_In_Review == <<73, 110, 32, 82, 101, 118, 105, 101, 119>>
Str_Done == <<68, 111, 110, 101>>
Str_Backlog == <<66, 97, 99, 107, 108, 111, 103>>
Str_trend == <<116, 114, 101, 110, 100>>
Str_anomaly == <<97, 110, 111, 109, 97, 108, 121>>
Str_warning == <<119, 97, 114, 110, 105, 110, 103>>
Str_No_Project == <<78, 111, 32, 80, 114, 111, 106, 101, 99, 116>>
Str_Unassigned == <<85, 110, 97, 115, 115, 105, 103, 110, 101, 100>>
Str_All_Issues == <<65, 108, 108, 32, 73, 115, 115, 117, 101, 115>>
Str_Other == <<79, 116, 104, 101, 114>>
Str_Mobile_App_Launch == <<77, 111, 98, 105, 108, 101, 32, 65, 112, 112, 32, 76, 97, 117, 110, 99, 104>>

Undefined == [t |-> "undefined", s |-> << >>, n |-> 0]
Null == [t |-> "null", s |-> << >>, n |-> 0]
StrVal(s) == [t |-> "string", s |-> s, n |-> 0]
NumVal(n) == [t |-> "number", s |-> << >>, n |-> n]
NaN == [t |-> "NaN", s |-> << >>, n |-> 0]

\* a code unit lower-cased (the ASCII letters A-Z)
LowerUnit(c) == IF c >= 65 /\ c <= 90 THEN c + 32 ELSE c

toLowerCase(s) == [i \in 1..Len(s) |-> LowerUnit(s[i])]

\* the white space String.prototype.trim removes (of the code units modelled)
IsWhiteSpace(c) == c \in {9, 10, 11, 12, 13, 32}

RECURSIVE trimStart(_)
trimStart(s) ==
    IF s # << >> /\ IsWhiteSpace(Head(s)) THEN trimStart(Tail(s)) ELSE s

RECURSIVE trimEnd(_)
trimEnd(s) ==
    IF s # << >> /\ IsWhiteSpace(s[Len(s)])
    THEN trimEnd(SubSeq(s, 1, Len(s) - 1))
    ELSE s

trim(s) == trimEnd(trimStart(s))

\* the decimal digits of a non-negative integer
RECURSIVE NumberToString(_)
NumberToString(n) ==
    IF n < 10 THEN <<48 + n>>
    ELSE Append(NumberToString(n \div 10), 48 + (n % 10))

\* String(value)
String(v) ==
    CASE v.t = "undefined" -> Str_undefined
      [] v.t = "null" -> Str_null
      [] v.t = "number" -> NumberToString(v.n)
      [] OTHER -> v.s

\* hay.indexOf(needle): the 0-based position of the first occurrence, or -1
RECURSIVE indexFrom(_, _, _)
indexFrom(hay, needle, i) ==
    IF i + Len(needle) > Len(hay) THEN -1
    ELSE IF SubSeq(hay, i + 1, i + Len(needle)) = needle THEN i
    ELSE indexFrom(hay, needle, i + 1)

indexOf(hay, needle) == indexFrom(hay, needle, 0)

includes(hay, needle) == indexOf(hay, needle) # -1

\* a truthy string is a non-empty one
Truthy(s) == s # << >>

\* s < t for two strings: by code units, a proper prefix first
RECURSIVE StrLess(_, _)
StrLess(s, t) ==
    IF t = << >> THEN FALSE
    ELSE IF s = << >> THEN TRUE
    ELSE IF Head(s) # Head(t) THEN Head(s) < Head(t)
    ELSE StrLess(Tail(s), Tail(t))

\* a < b of two values that are neither null nor undefined. The strings of the
\* model are not numeric, so a string against a number compares as NaN: false.
JsLess(a, b) ==
    CASE a.t = "string" /\ b.t = "string" -> StrLess(a.s, b.s)
      [] a.t = "number" /\ b.t = "number" -> a.n < b.n
      [] OTHER -> FALSE

(***************************************************************************)
(* Array.prototype.sort.  cmp[i][j] is what the comparator returns for     *)
(* (element i, element j) of the array.  The result is a sequence of       *)
(* positions of the input.  ECMAScript fixes the result of a consistent    *)
(* comparator (the stable order); for an inconsistent one the order is     *)
(* implementation-defined, and the engines differ in which argument order  *)
(* they call the comparator with: "pivotFirst" calls cmp(later, earlier)   *)
(* and moves the later element left while the result is negative (V8's     *)
(* insertion), "arrayOrder" calls cmp(earlier, later) and moves the later  *)
(* element left while the result is positive (merge sorts).                *)
(***************************************************************************)
SortEngines == {"pivotFirst", "arrayOrder"}

MovesLeft(cmp, x, e, engine) ==
    IF engine = "pivotFirst" THEN cmp[x][e] < 0 ELSE cmp[e][x] > 0

RECURSIVE InsertSorted(_, _, _, _)
InsertSorted(prefix, x, cmp, engine) ==
    IF prefix # << >> /\ MovesLeft(cmp, x, prefix[Len(prefix)], engine)
    THEN Append(InsertSorted(SubSeq(prefix, 1, Len(prefix) - 1), x, cmp, engine),
                prefix[Len(prefix)])
    ELSE Append(prefix, x)

RECURSIVE SortPrefix(_, _, _)
SortPrefix(k, cmp, engine) ==
    IF k = 0 THEN << >>
    ELSE InsertSorted(SortPrefix(k - 1, cmp, engine), k, cmp, engine)

\* the positions 1..n of an array in sorted order
ArraySort(n, cmp, engine) == SortPrefix(n, cmp, engine)

\* source.sort() without the copy: the sort permutes the source array itself
sourceSortedInPlace(source, order) ==
    IF Len(order) = Len(source) THEN [i \in 1..Len(order) |-> source[order[i]]]
    ELSE source

\* [...source].sort(): the sort permutes the copy that the spread made, and
\* the source array is left as it was
sourceAfterSort(source, order) == source

(***************************************************************************)
(* DataTable: props.                                                       *)
(***************************************************************************)
\* the column definitions passed to the table
Columns ==
    << [key |-> "name", sortable |-> TRUE, filterable |-> TRUE],
       [key |-> "qty", sortable |-> TRUE, filterable |-> TRUE],
       [key |-> "note", sortable |-> FALSE, filterable |-> FALSE] >>

ColumnKeys == {Columns[i].key : i \in 1..Len(Columns)}

\* columns.filter(col => col.filterable): the columns that get a filter box
FilterableKeys == {Columns[i].key : i \in {c \in 1..Len(Columns) : Columns[c].filterable}}

Row(name, qty, note) ==
    [k \in ColumnKeys |-> IF k = "name" THEN name ELSE IF k = "qty" THEN qty ELSE note]

\* the rows the caller's data is made of: names that differ in case and contain
\* a space, numbers whose numeric and string orders differ, a row without a
\* name (undefined) and rows whose qty is null; the note, a column that can be
\* neither sorted nor filtered, is empty but for one row
Rows ==
    { Row(StrVal(Str_A_d), NumVal(10), StrVal(Str_empty)),
      Row(StrVal(Str_b), NumVal(10), StrVal(Str_empty)),
      Row(StrVal(Str_b), Null, StrVal(Str_D)),
      Row(Undefined, NumVal(5), StrVal(Str_empty)),
      Row(Undefined, Null, StrVal(Str_empty)) }

RECURSIVE SeqsUpTo(_, _)
SeqsUpTo(S, n) ==
    IF n = 0 THEN {<< >>}
    ELSE LET shorter == SeqsUpTo(S, n - 1)
         IN  shorter \cup {Append(q, x) : q \in {p \in shorter : Len(p) = n - 1}, x \in S}

DataSets == SeqsUpTo(Rows, MaxRows)

\* the pagination prop: absent, or {page, pageSize, total}
\* rows of a table whose qty column holds numbers, a text and a null: a text
\* that is no numeral compares false with a number either way
MixedRows ==
    { Row(StrVal(Str_A_d), NumVal(10), StrVal(Str_empty)),
      Row(StrVal(Str_A_d), NumVal(5), StrVal(Str_empty)),
      Row(StrVal(Str_b), StrVal(Str_D), StrVal(Str_empty)),
      Row(StrVal(Str_b), Null, StrVal(Str_D)) }

\* the data sets of MaxMixedRows different rows
MixedDataSets ==
    {d \in SeqsUpTo(MixedRows, MaxMixedRows) :
        /\ Len(d) = MaxMixedRows
        /\ \A i, j \in 1..Len(d) : d[i] = d[j] => i = j}

NoPagination == [present |-> FALSE, page |-> 0, pageSize |-> 0, total |-> 0]

PaginationProps ==
    {[present |-> TRUE, page |-> page, pageSize |-> pageSize, total |-> total] :
        page \in 1..MaxPage, pageSize \in 0..MaxPageSize, total \in 0..MaxTotal}

\* what the user can type into the search box and into a filter box
SearchTerms == {Str_empty, Str_space, Str_D, Str_1}
FilterTerms == {Str_empty, Str_D, Str_1}

(***************************************************************************)
(* DataTable: state and derived data.                                      *)
(***************************************************************************)
\* useState(null): no sort configuration yet (key "" stands for null)
NullSortConfig == [key |-> "", direction |-> "null"]

\* useState({})
NoFilters == [k \in {} |-> Str_empty]

IsMissing(v) == v.t = "null" \/ v.t = "undefined"

\* the comparator on the stringified values: numbers in the order of their
\* decimal digits
compareAsStrings(a, b, cfg) ==
    LET aValue == a[cfg.key]
        bValue == b[cfg.key]
    IN  IF IsMissing(aValue) THEN 1
        ELSE IF IsMissing(bValue) THEN -1
        ELSE IF StrLess(String(aValue), String(bValue))
            THEN (IF cfg.direction = "asc" THEN -1 ELSE 1)
        ELSE IF StrLess(String(bValue), String(aValue))
            THEN (IF cfg.direction = "asc" THEN 1 ELSE -1)
        ELSE 0

\* compare with the missing-value tests following the sort direction
compareMissingByDirection(a, b, cfg) ==
    LET aValue == a[cfg.key]
        bValue == b[cfg.key]
    IN  IF IsMissing(aValue) THEN (IF cfg.direction = "asc" THEN 1 ELSE -1)
        ELSE IF IsMissing(bValue) THEN (IF cfg.direction = "asc" THEN -1 ELSE 1)
        ELSE IF JsLess(aValue, bValue) THEN (IF cfg.direction = "asc" THEN -1 ELSE 1)
        ELSE IF JsLess(bValue, aValue) THEN (IF cfg.direction = "asc" THEN 1 ELSE -1)
        ELSE 0

\* the comparator handed to sort
compare(a, b, cfg) ==
    LET aValue == a[cfg.key]
        bValue == b[cfg.key]
    IN  IF IsMissing(aValue) THEN 1
        ELSE IF IsMissing(bValue) THEN -1
        ELSE IF JsLess(aValue, bValue) THEN (IF cfg.direction = "asc" THEN -1 ELSE 1)
        ELSE IF JsLess(bValue, aValue) THEN (IF cfg.direction = "asc" THEN 1 ELSE -1)
        ELSE 0

Identity(n) == [i \in 1..n |-> i]

\* sortedData without the test of the direction: only a null configuration
\* leaves the data as it is
sortedDataIgnoringDirection(d, cfg, engine) ==
    IF cfg = NullSortConfig THEN Identity(Len(d))
    ELSE ArraySort(Len(d),
                   [i \in 1..Len(d) |-> [j \in 1..Len(d) |-> compare(d[i], d[j], cfg)]],
                   engine)

\* sortedData: the rows of d (as positions of d) in display order
sortedData(d, cfg, engine) ==
    IF cfg = NullSortConfig \/ cfg.direction = "null" THEN Identity(Len(d))
    ELSE ArraySort(Len(d),
                   [i \in 1..Len(d) |-> [j \in 1..Len(d) |-> compare(d[i], d[j], cfg)]],
                   engine)

\* rowPasses with the column filters as alternatives: a row passes them when
\* none is active or it matches one of the active ones
rowPassesAnyFilter(row, f, term) ==
    LET active == {key \in DOMAIN f : Truthy(f[key])}
    IN  /\ active # {} =>
               \E key \in active :
                   indexOf(toLowerCase(String(row[key])), toLowerCase(f[key])) # -1
        /\ Truthy(term) =>
               \E c \in 1..Len(Columns) :
                   indexOf(toLowerCase(String(row[Columns[c].key])), toLowerCase(term)) # -1

\* rowPasses with the search looking at the filterable columns only
rowPassesFilterableOnly(row, f, term) ==
    /\ \A key \in DOMAIN f :
           Truthy(f[key]) =>
               indexOf(toLowerCase(String(row[key])), toLowerCase(f[key])) # -1
    /\ Truthy(term) =>
           \E c \in 1..Len(Columns) :
               /\ Columns[c].filterable
               /\ indexOf(toLowerCase(String(row[Columns[c].key])), toLowerCase(term)) # -1

\* rowPasses with a cleared filter box still constraining: an entry whose
\* value is empty passes only the rows whose cell is empty
rowPassesEmptyFilterConstrains(row, f, term) ==
    /\ \A key \in DOMAIN f :
           IF Truthy(f[key])
           THEN indexOf(toLowerCase(String(row[key])), toLowerCase(f[key])) # -1
           ELSE String(row[key]) = Str_empty
    /\ Truthy(term) =>
           \E c \in 1..Len(Columns) :
               indexOf(toLowerCase(String(row[Columns[c].key])), toLowerCase(term)) # -1

\* rowPasses with the search deciding alone whenever a term is set
rowPassesSearchFirst(row, f, term) ==
    IF Truthy(term)
    THEN \E c \in 1..Len(Columns) :
             indexOf(toLowerCase(String(row[Columns[c].key])), toLowerCase(term)) # -1
    ELSE ~\E key \in DOMAIN f :
              /\ Truthy(f[key])
              /\ indexOf(toLowerCase(String(row[key])), toLowerCase(f[key])) = -1

\* the body of the filter callback: column filters, then search
rowPasses(row, f, term) ==
    IF \E key \in DOMAIN f :
           /\ Truthy(f[key])
           /\ indexOf(toLowerCase(String(row[key])), toLowerCase(f[key])) = -1
    THEN FALSE
    ELSE IF Truthy(term)
    THEN \E c \in 1..Len(Columns) :
             indexOf(toLowerCase(String(row[Columns[c].key])), toLowerCase(term)) # -1
    ELSE TRUE

\* filteredData: sortedData.filter(...)
filteredDataOf(d, cfg, f, term, engine) ==
    LET keep(i) == rowPasses(d[i], f, term)
    IN  SelectSeq(sortedData(d, cfg, engine), keep)

\* one render of the component: the memoised rows are recomputed from the
\* props and the state; the engine's sort decides the order
Render(d, cfg, f, term, out) ==
    out \in {filteredDataOf(d, cfg, f, term, engine) : engine \in SortEngines}

\* a footer that gives the two counts the other way round
footerCountsExchanged(d, shown) == [matched |-> Len(d), source |-> Len(shown)]

\* the footer: Showing {filteredData.length} of {data.length} items
footerCounts(d, shown) == [matched |-> Len(shown), source |-> Len(d)]

\* the page count with the division rounded down
PageCountRoundedDown(p) ==
    IF p.pageSize = 0 THEN -1 ELSE p.total \div p.pageSize

\* the page count of the pagination footer: Math.ceil(total / pageSize);
\* a division by zero gives Infinity (or NaN for 0/0), written -1 here
PageCount(p) ==
    IF p.pageSize = 0 THEN -1
    ELSE (p.total + p.pageSize - 1) \div p.pageSize

\* {pagination && (...)}: the pagination footer is rendered whenever the prop
\* is given; nothing looks at its pageSize before
PaginationFooterShown(p) == p.present

\* Previous: disabled={pagination.page === 1}
PreviousDisabled(p) == p.page = 1

\* Next: disabled={pagination.page >= Math.ceil(total / pageSize)}; no page is
\* >= Infinity or >= NaN
NextDisabled(p) == PageCount(p) # -1 /\ p.page >= PageCount(p)

(***************************************************************************)
(* DataTable: handlers.                                                    *)
(***************************************************************************)
\* the updater as a two-state toggle: descending goes back to ascending
nextSortConfigTwoState(current, key) ==
    IF current.key = key /\ current.direction = "asc"
        THEN [key |-> key, direction |-> "desc"]
    ELSE [key |-> key, direction |-> "asc"]

\* setSortConfig's updater
nextSortConfig(current, key) ==
    IF current.key = key /\ current.direction = "asc"
        THEN [key |-> key, direction |-> "desc"]
    ELSE IF current.key = key /\ current.direction = "desc"
        THEN [key |-> key, direction |-> "null"]
    ELSE [key |-> key, direction |-> "asc"]

\* a click on a column header
HandleSort(c) ==
    /\ Columns[c].sortable
    /\ SortableProp
    /\ sortConfig' = nextSortConfig(sortConfig, Columns[c].key)
    /\ \E engine \in SortEngines :
           data' = sourceAfterSort(data, sortedData(data, sortConfig', engine))
    /\ UNCHANGED <<pagination, filters, searchTerm>>
    /\ Render(data', sortConfig', filters', searchTerm', filteredData')
    /\ UNCHANGED <<tlVars, kbVars, ilVars, liVars, pmVars>>

\* setFilters's updater: {...prev, [key]: value}
nextFilters(prev, key, value) ==
    [k \in (DOMAIN prev) \cup {key} |-> IF k = key THEN value ELSE prev[k]]

\* typing into the filter box of a filterable column
HandleFilter(c, value) ==
    /\ Columns[c].filterable
    /\ filters' = nextFilters(filters, Columns[c].key, value)
    /\ UNCHANGED <<data, pagination, sortConfig, searchTerm>>
    /\ Render(data', sortConfig', filters', searchTerm', filteredData')
    /\ UNCHANGED <<tlVars, kbVars, ilVars, liVars, pmVars>>

\* typing into the search box
SetSearchTerm(value) ==
    /\ SearchableProp
    /\ searchTerm' = value
    /\ UNCHANGED <<data, pagination, sortConfig, filters>>
    /\ Render(data', sortConfig', filters', searchTerm', filteredData')
    /\ UNCHANGED <<tlVars, kbVars, ilVars, liVars, pmVars>>

DataTableIdle ==
    /\ data = << >>
    /\ pagination = NoPagination
    /\ sortConfig = NullSortConfig
    /\ filters = NoFilters
    /\ searchTerm = Str_empty
    /\ filteredData = << >>

DataTableInit ==
    /\ data \in DataSets
    /\ pagination = NoPagination
    /\ sortConfig = NullSortConfig
    /\ filters = NoFilters
    /\ searchTerm = Str_empty
    /\ Render(data, sortConfig, filters, searchTerm, filteredData)

(***************************************************************************)
(* TaskList: props.                                                        *)
(***************************************************************************)
TagsVal(tags) == [t |-> "array", s |-> tags, n |-> 0]

Task(id, title, description, status, priority, assignee, project, tags) ==
    [id |-> id, title |-> StrVal(title), description |-> description,
     status |-> StrVal(status), priority |-> StrVal(priority),
     assignee |-> assignee, project |-> StrVal(project), tags |-> tags]

\* the tasks the caller's list is made of: every status and priority, an
\* assignee that is absent and one that is the empty string, a project named
\* like an inherited property, and a task as the task service returns it after
\* an update that gave neither status nor priority
TaskPool ==
    { Task(1, Str_Fix_ui, Undefined, Str_todo, Str_critical,
           StrVal(Str_Al), Str_web, TagsVal(<<Str_ui>>)),
      Task(2, Str_Ship, StrVal(Str_A_b), Str_in_progress, Str_high,
           Undefined, Str_App, Undefined),
      Task(3, Str_Ship, Undefined, Str_review, Str_medium,
           StrVal(Str_empty), Str_web, Undefined),
      Task(4, Str_b, StrVal(Str_empty), Str_done, Str_low,
           StrVal(Str_bo), Str_App, TagsVal(<< >>)),
      Task(5, Str_Fix_ui, Undefined, Str_todo, Str_low,
           StrVal(Str_Al), Str_web, Undefined),
      Task(6, Str_b, Undefined, Str_done, Str_low,
           Undefined, Str_constructor, Undefined),
      [Task(7, Str_Ship, Undefined, Str_todo, Str_low,
            StrVal(Str_bo), Str_web, Undefined)
          EXCEPT !.status = Undefined, !.priority = Undefined] }

TaskLists == SeqsUpTo(TaskPool, MaxTasks)

GroupBys == {"status", "priority", "assignee", "project", "none"}

ViewModes == {"grid", "list"}

\* what the user can type into the task search box
SearchQueries == {Str_empty, Str_space, Str_s, Str_UI}

(***************************************************************************)
(* TaskList: derived data.                                                 *)
(***************************************************************************)
\* a value in a boolean context: undefined, null and "" are falsy
TruthyVal(v) == ~IsMissing(v) /\ ~(v.t = "string" /\ v.s = << >>)

\* the predicate of filterTasks' filter
taskMatches(task, query) ==
    \/ includes(toLowerCase(task.title.s), query)
    \/ (TruthyVal(task.description) /\ includes(toLowerCase(task.description.s), query))
    \/ (TruthyVal(task.assignee) /\ includes(toLowerCase(task.assignee.s), query))
    \/ (TruthyVal(task.project) /\ includes(toLowerCase(task.project.s), query))
    \/ (TruthyVal(task.tags) /\
        \E i \in 1..Len(task.tags.s) : includes(toLowerCase(task.tags.s[i]), query))

\* filterTasks: the tasks that match the search, as positions of ts
filterTasks(ts, searchQuery) ==
    IF ~Truthy(trim(searchQuery)) THEN Identity(Len(ts))
    ELSE LET keep(i) == taskMatches(ts[i], toLowerCase(searchQuery))
         IN  SelectSeq(Identity(Len(ts)), keep)

\* task[groupBy] || "Uncategorized"
groupKey(task, groupBy) ==
    IF TruthyVal(task[groupBy]) THEN String(task[groupBy]) ELSE Str_Uncategorized

\* the reducer of groupTasks: the groups in the insertion order of their keys
\* (Object.keys order, for keys that are not array indices)
RECURSIVE reduceGroups(_, _, _, _)
reduceGroups(ts, idxs, groupBy, groups) ==
    IF idxs = << >> THEN groups
    ELSE LET i == Head(idxs)
             key == groupKey(ts[i], groupBy)
             at == {g \in 1..Len(groups) : groups[g].key = key}
         IN  reduceGroups(ts, Tail(idxs), groupBy,
                 IF at = {}
                 THEN Append(groups, [key |-> key, members |-> <<i>>])
                 ELSE [g \in 1..Len(groups) |->
                          IF g \in at
                          THEN [groups[g] EXCEPT !.members = Append(@, i)]
                          ELSE groups[g]])

\* property names that every object literal inherits from Object.prototype
\* (those the model uses): groups[key] is truthy for them on the empty {}
ObjectPrototypeKeys == {Str_constructor, Str_toString, Str_valueOf, Str_hasOwnProperty}

\* whether the reducer throws: for an inherited key, !groups[key] is false, no
\* array is created, and groups[key].push is not a function (a TypeError)
groupTasksThrows(ts, idxs, groupBy) ==
    /\ groupBy # "none"
    /\ \E k \in 1..Len(idxs) : groupKey(ts[idxs[k]], groupBy) \in ObjectPrototypeKeys

groupTasks(ts, idxs, groupBy) ==
    IF groupBy = "none" THEN <<[key |-> Str_All_Tasks, members |-> idxs]>>
    ELSE reduceGroups(ts, idxs, groupBy, << >>)

\* order[key] || 999, for the rank tables of getPriorityOrder and getStatusOrder
RankOr999(table, key) ==
    LET hit == {e \in table : e[1] = key /\ e[2] # 0}
    IN  IF hit = {} THEN 999 ELSE (CHOOSE e \in hit : TRUE)[2]

getPriorityOrder(priority) ==
    RankOr999({<<Str_critical, 0>>, <<Str_high, 1>>, <<Str_medium, 2>>, <<Str_low, 3>>},
              priority)

getStatusOrder(status) ==
    RankOr999({<<Str_todo, 0>>, <<Str_in_progress, 1>>, <<Str_review, 2>>, <<Str_done, 3>>},
              status)

\* a.localeCompare(b) for strings of ASCII letters, digits and spaces: the
\* letters compared without case first, a lower-case letter before its capital
localeCompare(a, b) ==
    IF StrLess(toLowerCase(a), toLowerCase(b)) THEN -1
    ELSE IF StrLess(toLowerCase(b), toLowerCase(a)) THEN 1
    ELSE IF a = b THEN 0
    ELSE IF StrLess(b, a) THEN -1
    ELSE 1

\* the comparator of the sort of the group keys
compareGroupKeys(a, b, groupBy) ==
    IF groupBy = "priority" THEN getPriorityOrder(a) - getPriorityOrder(b)
    ELSE IF groupBy = "status" THEN getStatusOrder(a) - getStatusOrder(b)
    ELSE localeCompare(a, b)

\* sortedGroupKeys, as positions of the groups
sortedGroupKeys(groups, groupBy, engine) ==
    ArraySort(Len(groups),
              [i \in 1..Len(groups) |-> [j \in 1..Len(groups) |->
                   compareGroupKeys(groups[i].key, groups[j].key, groupBy)]],
              engine)

\* the sections the component displays: nothing but the empty message when no
\* task passes the search, else one section per group in sorted key order
sectionsOf(ts, st, engine) ==
    LET filteredTasks == filterTasks(ts, st.searchQuery)
        groupedTasks == groupTasks(ts, filteredTasks, st.groupBy)
        order == sortedGroupKeys(groupedTasks, st.groupBy, engine)
    IN  IF Len(filteredTasks) = 0 THEN << >>
        ELSE [i \in 1..Len(order) |-> groupedTasks[order[i]]]

\* a render: it throws when groupTasks throws and then displays nothing
RenderTaskList(ts, st, out, threw) ==
    /\ threw = groupTasksThrows(ts, filterTasks(ts, st.searchQuery), st.groupBy)
    /\ IF threw THEN out = << >>
       ELSE out \in {sectionsOf(ts, st, engine) : engine \in SortEngines}

(***************************************************************************)
(* TaskList: handlers.                                                     *)
(***************************************************************************)
HandleSearchChange(query) ==
    /\ ShowFiltersProp /\ TaskSearchableProp
    /\ state' = [state EXCEPT !.searchQuery = query]
    /\ UNCHANGED tasks
    /\ RenderTaskList(tasks', state', sections', renderError')
    /\ UNCHANGED <<dtVars, kbVars, ilVars, liVars, pmVars>>

HandleViewModeToggle ==
    /\ ShowFiltersProp
    /\ state' = [state EXCEPT !.viewMode = IF @ = "grid" THEN "list" ELSE "grid"]
    /\ UNCHANGED tasks
    /\ RenderTaskList(tasks', state', sections', renderError')
    /\ UNCHANGED <<dtVars, kbVars, ilVars, liVars, pmVars>>

HandleGroupByChange(newGroupBy) ==
    /\ ShowFiltersProp
    /\ state' = [state EXCEPT !.groupBy = newGroupBy]
    /\ UNCHANGED tasks
    /\ RenderTaskList(tasks', state', sections', renderError')
    /\ UNCHANGED <<dtVars, kbVars, ilVars, liVars, pmVars>>

TaskListIdle ==
    /\ tasks = << >>
    /\ state = [searchQuery |-> Str_empty, viewMode |-> "grid", groupBy |-> "none"]
    /\ sections = << >>
    /\ renderError = FALSE

\* the component state starts from the viewMode and groupBy props
TaskListInit ==
    /\ tasks \in TaskLists
    /\ \E viewMode \in ViewModes, groupBy \in GroupBys :
           state = [searchQuery |-> Str_empty, viewMode |-> viewMode, groupBy |-> groupBy]
    /\ RenderTaskList(tasks, state, sections, renderError)

(***************************************************************************)
(* KanbanBoard.                                                            *)
(***************************************************************************)
defaultColumns == <<Str_To_Do, Str_In_Progress, Str_In_Review, Str_Done>>

\* switch (status): a status that is none of the four goes to "To Do"
statusToColumn(status) ==
    IF status = StrVal(Str_todo) THEN Str_To_Do
    ELSE IF status = StrVal(Str_in_progress) THEN Str_In_Progress
    ELSE IF status = StrVal(Str_review) THEN Str_In_Review
    ELSE IF status = StrVal(Str_done) THEN Str_Done
    ELSE Str_To_Do

\* the tasks of a board, by the one field the board reads: the four statuses
\* and a task without a status
KanbanStatuses ==
    {StrVal(Str_todo), StrVal(Str_in_progress), StrVal(Str_review), StrVal(Str_done),
     Undefined}

KanbanTaskLists == SeqsUpTo({[status |-> st] : st \in KanbanStatuses}, MaxKanbanTasks)

\* the columns props the model passes: the default, a custom list that leaves
\* workflow columns out, one that adds a column, one that names a column twice
ColumnsProps ==
    {defaultColumns,
     <<Str_To_Do, Str_Done>>,
     <<Str_Backlog, Str_To_Do, Str_In_Progress, Str_In_Review, Str_Done>>,
     <<Str_To_Do, Str_To_Do, Str_In_Progress, Str_In_Review, Str_Done>>}

\* tasksByColumn[column] || []: the tasks whose status maps to the column, in
\* the order of the tasks prop
tasksByColumn(ts, column) ==
    LET inColumn(i) == statusToColumn(ts[i].status) = column
    IN  SelectSeq(Identity(Len(ts)), inColumn)

\* the bodies of the columns the board displays
KanbanRender(ts, cols, out) ==
    out = [c \in 1..Len(cols) |-> tasksByColumn(ts, cols[c])]

\* the parent renders the board with another tasks prop
SetKanbanTasks(ts) ==
    /\ kanbanTasks' = ts
    /\ UNCHANGED columns
    /\ KanbanRender(kanbanTasks', columns', columnTasks')
    /\ UNCHANGED <<dtVars, tlVars, ilVars, liVars, pmVars>>

\* the parent renders the board with another columns prop
SetKanbanColumns(cols) ==
    /\ columns' = cols
    /\ UNCHANGED kanbanTasks
    /\ KanbanRender(kanbanTasks', columns', columnTasks')
    /\ UNCHANGED <<dtVars, tlVars, ilVars, liVars, pmVars>>

KanbanIdle ==
    /\ kanbanTasks = << >>
    /\ columns = defaultColumns
    /\ columnTasks = [c \in 1..Len(defaultColumns) |-> << >>]

KanbanInit ==
    /\ kanbanTasks \in KanbanTaskLists
    /\ columns \in ColumnsProps
    /\ KanbanRender(kanbanTasks, columns, columnTasks)

(***************************************************************************)
(* InsightList.                                                            *)
(***************************************************************************)
\* an insight, by the fields the list reads; the confidence in hundredths
Insight(type, confidence, impact) ==
    [type |-> type, confidence |-> confidence, impact |-> impact]

InsightPool ==
    {Insight(Str_trend, 90, Str_low), Insight(Str_anomaly, 50, Str_high),
     Insight(Str_warning, 90, Str_medium)}

InsightLists == SeqsUpTo(InsightPool, MaxInsights)

InsightSortBys == {"confidence", "impact", "type"}

\* const impactOrder = { high: 3, medium: 2, low: 1 }
impactOrder(impact) ==
    IF impact = Str_high THEN 3 ELSE IF impact = Str_medium THEN 2 ELSE 1

\* the comparator of sortedInsights
compareInsights(a, b, sortBy) ==
    IF sortBy = "confidence" THEN b.confidence - a.confidence
    ELSE IF sortBy = "impact" THEN impactOrder(b.impact) - impactOrder(a.impact)
    ELSE IF sortBy = "type" THEN localeCompare(a.type, b.type)
    ELSE 0

\* sortedInsights: the sorted copy, cut to maxItems when that is given
sortedInsightsOf(ins, sortBy, limit, engine) ==
    LET sorted == ArraySort(Len(ins),
                      [i \in 1..Len(ins) |-> [j \in 1..Len(ins) |->
                           compareInsights(ins[i], ins[j], sortBy)]],
                      engine)
    IN  IF limit # 0
        THEN SubSeq(sorted, 1, IF limit < Len(sorted) THEN limit ELSE Len(sorted))
        ELSE sorted

InsightRender(ins, sortBy, limit, out) ==
    out \in {sortedInsightsOf(ins, sortBy, limit, engine) : engine \in SortEngines}

\* the parent renders the list with another sortBy prop
SetInsightSortBy(sortBy) ==
    /\ insightSortBy' = sortBy
    /\ \E engine \in SortEngines :
           insights' = sourceAfterSort(insights,
                           sortedInsightsOf(insights, sortBy, 0, engine))
    /\ UNCHANGED maxItems
    /\ InsightRender(insights', insightSortBy', maxItems', sortedInsights')
    /\ UNCHANGED <<dtVars, tlVars, kbVars, liVars, pmVars>>

InsightIdle ==
    /\ insights = << >>
    /\ insightSortBy = "confidence"
    /\ maxItems = 0
    /\ sortedInsights = << >>

\* the list as first rendered, with the default sortBy
InsightInit ==
    /\ insights \in InsightLists
    /\ insightSortBy = "confidence"
    /\ maxItems \in 0..MaxInsights
    /\ InsightRender(insights, insightSortBy, maxItems, sortedInsights)

(***************************************************************************)
(* LinearIssueList: the issues cut to maxItems, then grouped.  An issue    *)
(* keeps the fields the grouping reads; project and assignee stand for     *)
(* project?.name and assignee?.name.  The group keys of the sample issues  *)
(* are own keys of the accumulator, kept by Object.keys in insertion order.*)
(***************************************************************************)
Issue(status, priority, project, assignee) ==
    [status |-> status, priority |-> priority, project |-> project,
     assignee |-> assignee]

IssuePool ==
    {Issue(Str_todo, Str_high, StrVal(Str_web), Undefined),
     Issue(Str_done, Str_low, Undefined, StrVal(Str_Al)),
     Issue(Str_todo, Str_low, StrVal(Str_App), StrVal(Str_Al)),
     Issue(Str_done, Str_high, StrVal(Str_empty), StrVal(Str_bo))}

IssueLists == SeqsUpTo(IssuePool, MaxIssues) \ {<< >>}

IssueGroupBys == {"status", "priority", "project", "assignee", "none"}

\* the switch of groupIssues
issueKey(issue, groupBy) ==
    IF groupBy = "status" THEN issue.status
    ELSE IF groupBy = "priority" THEN issue.priority
    ELSE IF groupBy = "project"
         THEN IF TruthyVal(issue.project) THEN issue.project.s ELSE Str_No_Project
    ELSE IF groupBy = "assignee"
         THEN IF TruthyVal(issue.assignee) THEN issue.assignee.s ELSE Str_Unassigned
    ELSE Str_Other

\* the reducer of groupIssues over the issues at the positions idxs
RECURSIVE reduceIssues(_, _, _, _)
reduceIssues(is, idxs, groupBy, groups) ==
    IF idxs = << >> THEN groups
    ELSE LET i == Head(idxs)
             key == issueKey(is[i], groupBy)
             at == {g \in 1..Len(groups) : groups[g].key = key}
         IN  reduceIssues(is, Tail(idxs), groupBy,
                 IF at = {}
                 THEN Append(groups, [key |-> key, members |-> <<i>>])
                 ELSE [g \in 1..Len(groups) |->
                          IF g \in at
                          THEN [groups[g] EXCEPT !.members = Append(@, i)]
                          ELSE groups[g]])

groupIssues(is, idxs, groupBy) ==
    IF groupBy = "none" THEN <<[key |-> Str_All_Issues, members |-> idxs]>>
    ELSE reduceIssues(is, idxs, groupBy, << >>)

\* const displayIssues = maxItems ? issues.slice(0, maxItems) : issues
displayIssues(is, limit) ==
    IF limit # 0
    THEN [k \in 1..(IF limit < Len(is) THEN limit ELSE Len(is)) |-> k]
    ELSE [k \in 1..Len(is) |-> k]

\* the groups the component renders, in the order of Object.keys
groupedIssuesOf(is, groupBy, limit) ==
    groupIssues(is, displayIssues(is, limit), groupBy)

\* the parent renders the list with another groupBy prop
SetIssueGroupBy(groupBy) ==
    /\ issueGroupBy' = groupBy
    /\ UNCHANGED <<issues, issueMaxItems>>
    /\ groupedIssues' = groupedIssuesOf(issues', issueGroupBy', issueMaxItems')
    /\ UNCHANGED <<dtVars, tlVars, kbVars, ilVars, pmVars>>

\* the parent renders the list with another maxItems prop
SetIssueMaxItems(limit) ==
    /\ issueMaxItems' = limit
    /\ UNCHANGED <<issues, issueGroupBy>>
    /\ groupedIssues' = groupedIssuesOf(issues', issueGroupBy', issueMaxItems')
    /\ UNCHANGED <<dtVars, tlVars, kbVars, ilVars, pmVars>>

IssueListIdle ==
    /\ issues = << >>
    /\ issueGroupBy = "none"
    /\ issueMaxItems = 0
    /\ groupedIssues = << >>

\* the list as first rendered, with the default groupBy and no maxItems
IssueListInit ==
    /\ issues \in IssueLists
    /\ issueGroupBy = "none"
    /\ issueMaxItems = 0
    /\ groupedIssues = groupedIssuesOf(issues, issueGroupBy, issueMaxItems)

(***************************************************************************)
(* Task service: dates, the store and the tool inputs.                     *)
(* A time value is a calendar day written yyyymmdd (an order-preserving    *)
(* stand-in for the milliseconds of a Date); the clock reads in the same   *)
(* unit, and two readings are equal when they fall in the same instant.    *)
(***************************************************************************)
IsDigit(c) == c >= 48 /\ c <= 57

RECURSIVE DigitsValue(_)
DigitsValue(s) ==
    IF s = << >> THEN 0
    ELSE 10 * DigitsValue(SubSeq(s, 1, Len(s) - 1)) + (s[Len(s)] - 48)

\* the date string of a time value: YYYY-MM-DD
DateString(n) ==
    LET d == NumberToString(n)
    IN  IF Len(d) = 8
        THEN SubSeq(d, 1, 4) \o <<45>> \o SubSeq(d, 5, 6) \o <<45>> \o SubSeq(d, 7, 8)
        ELSE d

\* new Date(string): the time value of a YYYY-MM-DD string, NaN for any other
NewDate(s) ==
    IF /\ Len(s) = 10
       /\ s[5] = 45 /\ s[8] = 45
       /\ \A i \in {1, 2, 3, 4, 6, 7, 9, 10} : IsDigit(s[i])
    THEN NumVal(DigitsValue(SubSeq(s, 1, 4) \o SubSeq(s, 6, 7) \o SubSeq(s, 9, 10)))
    ELSE NaN

\* new Date(0)
Epoch == NumVal(0)

\* new Date().toISOString()
NowString(clock) == StrVal(DateString(clock))

\* `task-${Date.now()}`
NewTaskId(clock) == StrVal(Str_task_ \o NumberToString(clock))

STask(id, status, priority, assignee, dueDate, createdDate, updatedDate, project) ==
    [id |-> StrVal(Str_task_ \o NumberToString(id)),
     status |-> StrVal(status), priority |-> StrVal(priority),
     assignee |-> StrVal(assignee), dueDate |-> StrVal(DateString(dueDate)),
     createdDate |-> StrVal(DateString(createdDate)),
     updatedDate |-> StrVal(DateString(updatedDate)), project |-> StrVal(project)]

\* the mock data the store starts with (the fields the service reads or writes)
InitialMockTasks ==
    << STask(1, Str_in_progress, Str_high, Str_Alice_Chen,
             20240315, 20240301, 20240310, Str_Website_Redesign),
       STask(2, Str_todo, Str_critical, Str_Bob_Smith,
             20240320, 20240305, 20240305, Str_Mobile_App_Launch),
       STask(3, Str_review, Str_medium, Str_Carol_Johnson,
             20240318, 20240302, 20240312, Str_Website_Redesign),
       STask(4, Str_done, Str_medium, Str_David_Kim,
             20240310, 20240301, 20240309, Str_Mobile_App_Launch),
       STask(5, Str_todo, Str_low, Str_Eva_Martinez,
             20240325, 20240308, 20240308, Str_Website_Redesign) >>

\* the reading of the clock when the model starts
ClockStart == 20240316

\* a key that an object does not have reads as undefined
Get(obj, key) == IF key \in DOMAIN obj THEN obj[key] ELSE Undefined

\* {...base, ...over}
Spread(base, over) ==
    [k \in (DOMAIN base) \cup (DOMAIN over) |->
        IF k \in DOMAIN over THEN over[k] ELSE base[k]]

(***************************************************************************)
(* Task service: getTasks.                                                 *)
(***************************************************************************)
\* const priorityOrder = { low: 1, medium: 2, high: 3, critical: 4 }; a key the
\* table does not have reads as undefined
priorityOrder(priority) ==
    IF priority = StrVal(Str_low) THEN NumVal(1)
    ELSE IF priority = StrVal(Str_medium) THEN NumVal(2)
    ELSE IF priority = StrVal(Str_high) THEN NumVal(3)
    ELSE IF priority = StrVal(Str_critical) THEN NumVal(4)
    ELSE Undefined

\* aValue and bValue of the comparator
sortValue(task, sortBy) ==
    IF sortBy = "priority" THEN priorityOrder(Get(task, "priority"))
    ELSE IF TruthyVal(Get(task, sortBy)) THEN NewDate(Get(task, sortBy).s)
    ELSE Epoch

\* the comparator of getTasks' sort
compareTasks(a, b, f) ==
    LET aValue == sortValue(a, f.sortBy)
        bValue == sortValue(b, f.sortBy)
        order == IF f.sortOrder = "desc" THEN -1 ELSE 1
    IN  IF JsLess(bValue, aValue) THEN order
        ELSE IF JsLess(aValue, bValue) THEN -order
        ELSE 0

\* the filters of getTasks joined by "or": a task passes when it meets one
\* of the given filters, or when none is given
passesAnyFilter(task, f, clock) ==
    LET given == {k \in {"status", "priority", "assignee", "project"} : TruthyVal(f[k])}
    IN  \/ given = {} /\ ~f.overdue
        \/ \E k \in given : Get(task, k) = f[k]
        \/ /\ f.overdue
           /\ TruthyVal(Get(task, "dueDate"))
           /\ JsLess(NewDate(Get(task, "dueDate").s), NumVal(clock))
           /\ Get(task, "status") # StrVal(Str_done)

\* the filter steps of getTasks: the predicate a task must pass
passesFilters(task, f, clock) ==
    /\ TruthyVal(f.status) => Get(task, "status") = f.status
    /\ TruthyVal(f.priority) => Get(task, "priority") = f.priority
    /\ TruthyVal(f.assignee) => Get(task, "assignee") = f.assignee
    /\ TruthyVal(f.project) => Get(task, "project") = f.project
    /\ f.overdue =>
          /\ TruthyVal(Get(task, "dueDate"))
          /\ JsLess(NewDate(Get(task, "dueDate").s), NumVal(clock))
          /\ Get(task, "status") # StrVal(Str_done)

\* getTasks: the returned tasks, as positions of the store
getTasks(store, f, clock, engine) ==
    LET keep(i) == passesFilters(store[i], f, clock)
        filteredTasks == SelectSeq(Identity(Len(store)), keep)
        n == Len(filteredTasks)
        order == ArraySort(n,
                     [i \in 1..n |-> [j \in 1..n |->
                          compareTasks(store[filteredTasks[i]], store[filteredTasks[j]], f)]],
                     engine)
    IN  IF f.sortBy = "none" THEN filteredTasks
        ELSE [i \in 1..n |-> filteredTasks[order[i]]]

(***************************************************************************)
(* Task service: the tools.                                                *)
(***************************************************************************)
Query(status, overdue, sortBy, sortOrder) ==
    [status |-> status, priority |-> Undefined, assignee |-> Undefined,
     project |-> Undefined, overdue |-> overdue, sortBy |-> sortBy,
     sortOrder |-> sortOrder]

NoQuery == Query(Undefined, FALSE, "none", "none")

\* getTasks calls with two filters at once, and one with an empty assignee
FilterQueries ==
    { [NoQuery EXCEPT !.priority = StrVal(Str_medium),
                      !.project = StrVal(Str_Mobile_App_Launch)],
      [NoQuery EXCEPT !.status = StrVal(Str_todo),
                      !.project = StrVal(Str_Website_Redesign)],
      [NoQuery EXCEPT !.assignee = StrVal(Str_Alice_Chen), !.overdue = TRUE],
      [NoQuery EXCEPT !.priority = StrVal(Str_medium), !.overdue = TRUE],
      [NoQuery EXCEPT !.assignee = StrVal(Str_empty)] }

\* the getTasks calls the model makes: each sort key in both orders, and the
\* status and overdue filters without a sort
QueryInputs ==
    {Query(Undefined, FALSE, sortBy, sortOrder) :
        sortBy \in {"dueDate", "priority", "createdDate"}, sortOrder \in {"asc", "desc"}}
    \cup {Query(status, overdue, "none", "none") :
        status \in {Undefined, StrVal(Str_todo)}, overdue \in BOOLEAN}
    \cup FilterQueries

\* the createTask calls the model makes: the optional fields of the input
\* schema (status, priority, dueDate) given or left out
CreateInputs ==
    { [status |-> StrVal(Str_todo), priority |-> StrVal(Str_low),
       dueDate |-> StrVal(Str_2024_03_01), project |-> StrVal(Str_Website_Redesign)],
      [status |-> StrVal(Str_done), priority |-> StrVal(Str_critical),
       project |-> StrVal(Str_Website_Redesign)],
      [dueDate |-> StrVal(Str_2024_03_01), project |-> StrVal(Str_Website_Redesign)] }

\* the updateTaskStatus calls the model makes: none, one, two or all of the
\* optional parameters
UpdateInputs ==
    { [k \in {} |-> Undefined],
      [status |-> StrVal(Str_done)],
      [priority |-> StrVal(Str_critical)],
      [assignee |-> StrVal(Str_Bob_Smith), dueDate |-> StrVal(Str_2024_03_01)],
      [status |-> StrVal(Str_review), priority |-> StrVal(Str_low),
       assignee |-> StrVal(Str_Bob_Smith), dueDate |-> StrVal(Str_2024_03_01)] }

\* the ids a call may name: a mock task, an id that no task has, and the ids
\* of the tasks created so far
TaskIdInputs(store) ==
    {StrVal(Str_task_1), StrVal(Str_task_0)}
    \cup {store[i].id : i \in (Len(InitialMockTasks) + 1)..Len(store)}

Returned(op, f, rows, error) ==
    [op |-> op, filters |-> f, rows |-> rows, error |-> error]

\* the getTasks tool
GetTasks(f) ==
    /\ \E engine \in SortEngines :
           /\ result' = Returned("getTasks", f, getTasks(mockTasks, f, now, engine), FALSE)
           /\ mockTasks' = sourceAfterSort(mockTasks, getTasks(mockTasks, f, now, engine))
    /\ UNCHANGED <<now, calls>>
    /\ UNCHANGED <<dtVars, tlVars, kbVars, ilVars, liVars>>

\* the task createTask pushes
newTask(taskData, clock) ==
    Spread(taskData,
           [id |-> NewTaskId(clock), createdDate |-> NowString(clock),
            updatedDate |-> NowString(clock)])

\* the createTask tool
CreateTask(taskData) ==
    /\ calls < MaxCalls
    /\ calls' = calls + 1
    /\ mockTasks' = Append(mockTasks, newTask(taskData, now))
    /\ result' = Returned("createTask", NoQuery, <<Len(mockTasks')>>, FALSE)
    /\ UNCHANGED now
    /\ UNCHANGED <<dtVars, tlVars, kbVars, ilVars, liVars>>

\* mockTasks.findIndex(task => task.id === taskId): a position, or 0 for -1
findIndex(store, taskId) ==
    LET hits == {i \in 1..Len(store) : store[i].id = taskId}
    IN  IF hits = {} THEN 0 ELSE CHOOSE i \in hits : \A j \in hits : i <= j

\* updateTaskStatus without the test of taskIndex: an id that is not found
\* stores the update as a further entry
updatedStoreWithoutNotFoundTest(store, taskId, updates, clock) ==
    LET taskIndex == findIndex(store, taskId)
    IN  IF taskIndex = 0
        THEN Append(store, Spread(updates, [updatedDate |-> NowString(clock)]))
        ELSE [store EXCEPT ![taskIndex] =
                 Spread(Spread(@, updates), [updatedDate |-> NowString(clock)])]

\* the store after the service's updateTaskStatus(taskId, updates)
updatedStore(store, taskId, updates, clock) ==
    LET taskIndex == findIndex(store, taskId)
    IN  IF taskIndex = 0 THEN store
        ELSE [store EXCEPT ![taskIndex] =
                 Spread(Spread(@, updates), [updatedDate |-> NowString(clock)])]

\* the object the tool hands to the service: all four keys, a parameter that
\* was not given as undefined
toolUpdates(params) ==
    [k \in {"status", "priority", "assignee", "dueDate"} |-> Get(params, k)]

\* the updateTaskStatus tool
UpdateTaskStatus(taskId, params) ==
    /\ calls < MaxCalls
    /\ calls' = calls + 1
    /\ mockTasks' = updatedStore(mockTasks, taskId, toolUpdates(params), now)
    /\ result' = Returned("updateTaskStatus", NoQuery,
                          IF findIndex(mockTasks, taskId) = 0 THEN << >>
                          ELSE <<findIndex(mockTasks, taskId)>>,
                          findIndex(mockTasks, taskId) = 0)
    /\ UNCHANGED now
    /\ UNCHANGED <<dtVars, tlVars, kbVars, ilVars, liVars>>

\* time passes
Tick ==
    /\ now < ClockStart + MaxTicks
    /\ now' = now + 1
    /\ UNCHANGED <<mockTasks, calls, result>>
    /\ UNCHANGED <<dtVars, tlVars, kbVars, ilVars, liVars>>

ServiceIdle ==
    /\ mockTasks = InitialMockTasks
    /\ now = ClockStart
    /\ calls = 0
    /\ result = Returned("none", NoQuery, << >>, FALSE)

(***************************************************************************)
(* Specifications: one per component.                                      *)
(***************************************************************************)
Init == DataTableInit /\ TaskListIdle /\ KanbanIdle /\ InsightIdle /\ IssueListIdle /\ ServiceIdle

Next ==
    \/ \E c \in 1..Len(Columns) : HandleSort(c)
    \/ \E c \in 1..Len(Columns), value \in FilterTerms : HandleFilter(c, value)
    \/ \E value \in SearchTerms : SetSearchTerm(value)

Spec == Init /\ [][Next]_vars

\* the table given a pagination prop, driven by its header and its search box
PagedInit ==
    /\ data \in DataSets
    /\ pagination \in PaginationProps
    /\ sortConfig = NullSortConfig
    /\ filters = NoFilters
    /\ searchTerm = Str_empty
    /\ Render(data, sortConfig, filters, searchTerm, filteredData)
    /\ TaskListIdle /\ KanbanIdle /\ InsightIdle /\ IssueListIdle /\ ServiceIdle

PagedNext ==
    \/ \E c \in 1..Len(Columns) : HandleSort(c)
    \/ \E value \in SearchTerms : SetSearchTerm(value)

PagedSpec == PagedInit /\ [][PagedNext]_vars

TaskListSpecInit == TaskListInit /\ DataTableIdle /\ KanbanIdle /\ InsightIdle /\ IssueListIdle /\ ServiceIdle

TaskListSpecNext ==
    \/ \E query \in SearchQueries : HandleSearchChange(query)
    \/ HandleViewModeToggle
    \/ \E newGroupBy \in GroupBys : HandleGroupByChange(newGroupBy)

TaskListSpec == TaskListSpecInit /\ [][TaskListSpecNext]_vars

ServiceSpecInit ==
    ServiceIdle /\ DataTableIdle /\ TaskListIdle /\ KanbanIdle /\ InsightIdle /\ IssueListIdle

ServiceSpecNext ==
    \/ \E f \in QueryInputs : GetTasks(f)
    \/ \E taskData \in CreateInputs : CreateTask(taskData)
    \/ \E taskId \in TaskIdInputs(mockTasks), params \in UpdateInputs :
           UpdateTaskStatus(taskId, params)
    \/ Tick

ServiceSpec == ServiceSpecInit /\ [][ServiceSpecNext]_vars

KanbanSpecInit == KanbanInit /\ DataTableIdle /\ TaskListIdle /\ InsightIdle /\ IssueListIdle /\ ServiceIdle

KanbanSpecNext ==
    \/ \E ts \in KanbanTaskLists : SetKanbanTasks(ts)
    \/ \E cols \in ColumnsProps : SetKanbanColumns(cols)

KanbanSpec == KanbanSpecInit /\ [][KanbanSpecNext]_vars

\* the three derivations that sort, side by side: a table and an insight list
\* on the page, and the task service they are fed from
DerivationInit ==
    /\ DataTableInit
    /\ InsightInit
    /\ insights = <<Insight(Str_anomaly, 50, Str_high), Insight(Str_trend, 90, Str_low)>>
    /\ maxItems = 0
    /\ ServiceIdle /\ TaskListIdle /\ KanbanIdle /\ IssueListIdle

\* the getTasks calls that sort, and the call without filters
SortQueries == {f \in QueryInputs : f.sortBy # "none"} \cup {NoQuery}

DerivationNext ==
    \/ \E c \in 1..Len(Columns) : HandleSort(c)
    \/ \E sortBy \in InsightSortBys : SetInsightSortBy(sortBy)
    \/ \E f \in SortQueries : GetTasks(f)

DerivationSpec == DerivationInit /\ [][DerivationNext]_vars

\* the table over a column of mixed values, driven by its header and its
\* filter boxes
MixedInit ==
    /\ data \in MixedDataSets
    /\ pagination = NoPagination
    /\ sortConfig = NullSortConfig
    /\ filters = NoFilters
    /\ searchTerm = Str_empty
    /\ Render(data, sortConfig, filters, searchTerm, filteredData)
    /\ TaskListIdle /\ KanbanIdle /\ InsightIdle /\ IssueListIdle /\ ServiceIdle

MixedNext ==
    \/ \E c \in 1..Len(Columns) : HandleSort(c)
    \/ \E c \in 1..Len(Columns), value \in FilterTerms : HandleFilter(c, value)

MixedSpec == MixedInit /\ [][MixedNext]_vars

IssueListSpecInit ==
    IssueListInit /\ DataTableIdle /\ TaskListIdle /\ KanbanIdle /\ InsightIdle /\ ServiceIdle

IssueListSpecNext ==
    \/ \E groupBy \in IssueGroupBys : SetIssueGroupBy(groupBy)
    \/ \E limit \in 0..MaxIssues : SetIssueMaxItems(limit)

IssueListSpec == IssueListSpecInit /\ [][IssueListSpecNext]_vars

(***************************************************************************)
(* Properties.                                                             *)
(***************************************************************************)
\* text contains term, both compared in lower case
ContainsIgnoringCase(text, term) ==
    \E i \in 0..(Len(text) - Len(term)) :
        toLowerCase(SubSeq(text, i + 1, i + Len(term))) = toLowerCase(term)

\* the rows of the table body
DisplayedRows == [k \in 1..Len(filteredData) |-> data[filteredData[k]]]

SortActive == sortConfig.direction \in {"asc", "desc"}

\* C1: every displayed row matches the search term (when one is set) and
\* every column filter whose value is non-empty; matching is containment of
\* the term in the stringified cell, ignoring case.
C1_FilteringIsConjunctive ==
    \A k \in 1..Len(filteredData) :
        LET row == data[filteredData[k]]
        IN  /\ Truthy(searchTerm) =>
                \E key \in ColumnKeys : ContainsIgnoringCase(String(row[key]), searchTerm)
            /\ \A key \in DOMAIN filters :
                   Truthy(filters[key]) =>
                       ContainsIgnoringCase(String(row[key]), filters[key])

\* C1 witness: a search term and two column filters are set, one row is
\* displayed and another row, which matches the search but not a filter, is not.
C1_Witness ==
    /\ Truthy(searchTerm)
    /\ DOMAIN filters = FilterableKeys
    /\ \A key \in FilterableKeys : Truthy(filters[key])
    /\ Len(filteredData) = 1
    /\ \A key \in ColumnKeys : ~IsMissing(DisplayedRows[1][key])
    /\ \E i \in 1..Len(data) :
           /\ \A k \in 1..Len(filteredData) : filteredData[k] # i
           /\ \E key \in ColumnKeys : ContainsIgnoringCase(String(data[i][key]), searchTerm)

\* the rank of a priority or status group key in the order the claim gives
C2_Rank(key) ==
    CASE key \in {Str_critical, Str_todo} -> 1
      [] key \in {Str_high, Str_in_progress} -> 2
      [] key \in {Str_medium, Str_review} -> 3
      [] key \in {Str_low, Str_done} -> 4
      [] OTHER -> 5

\* C2: grouped by priority the sections are in the order critical, high,
\* medium, low, and grouped by status in the order todo, in-progress, review,
\* done.
C2_GroupSectionsInDomainOrder ==
    state.groupBy \in {"priority", "status"} =>
        \A i, j \in 1..Len(sections) :
            i < j => C2_Rank(sections[i].key) < C2_Rank(sections[j].key)

\* the page-th window of pageSize rows
Window(rows, page, pageSize) ==
    SubSeq(rows, (page - 1) * pageSize + 1,
           IF page * pageSize < Len(rows) THEN page * pageSize ELSE Len(rows))

\* C3: given a pagination, the table body is the page-th window of at most
\* pageSize rows of the filtered and sorted rows, and is empty for a page
\* beyond the last.
C3_BodyIsThePageWindow ==
    (pagination.present /\ pagination.pageSize > 0) =>
        \E engine \in SortEngines :
            filteredData =
                Window(filteredDataOf(data, sortConfig, filters, searchTerm, engine),
                       pagination.page, pagination.pageSize)

\* C4: while a sort is active, no row that lacks the sort column (null or
\* undefined) is displayed before a row that has it, ascending or descending.
C4_MissingValuesLast ==
    SortActive =>
        \A i, j \in 1..Len(filteredData) :
            (i < j /\ IsMissing(DisplayedRows[i][sortConfig.key]))
                => IsMissing(DisplayedRows[j][sortConfig.key])

\* C4 witness: sorted descending, a row that lacks the column came first in
\* the data and is displayed after a row that has it.
C4_Witness ==
    /\ sortConfig.direction = "desc"
    /\ Len(filteredData) = 2
    /\ filteredData[1] > filteredData[2]
    /\ IsMissing(DisplayedRows[2][sortConfig.key])
    /\ ~IsMissing(DisplayedRows[1][sortConfig.key])

\* the tasks getTasks returned
ReturnedTasks == [k \in 1..Len(result.rows) |-> mockTasks[result.rows[k]]]

HasDueDate(task) == TruthyVal(Get(task, "dueDate"))

\* C5: getTasks sorted by dueDate returns no task without a dueDate before a
\* task that has one, for either sortOrder.
C5_NoDueDateLast ==
    (result.op = "getTasks" /\ result.filters.sortBy = "dueDate") =>
        \A i, j \in 1..Len(result.rows) :
            (i < j /\ ~HasDueDate(ReturnedTasks[i])) => ~HasDueDate(ReturnedTasks[j])

\* C6: a search term that is empty or only white space displays what no
\* search term displays (the DataTable half of the claim).
C6_BlankSearchMatchesAll ==
    trim(searchTerm) = Str_empty =>
        \E engine \in SortEngines :
            filteredData = filteredDataOf(data, sortConfig, filters, Str_empty, engine)

\* the string a cell is matched as when an absent field counts as ""
StringOrEmpty(v) == IF v.t = "undefined" THEN Str_empty ELSE String(v)

\* C7: a row is never displayed on the strength of a field it does not have:
\* under a non-empty search term or filter, every displayed row matches with
\* its absent fields read as the empty string.
C7_AbsentFieldMatchesAsEmpty ==
    \A k \in 1..Len(filteredData) :
        LET row == data[filteredData[k]]
        IN  /\ Truthy(searchTerm) =>
                \E key \in ColumnKeys :
                    ContainsIgnoringCase(StringOrEmpty(row[key]), searchTerm)
            /\ \A key \in DOMAIN filters :
                   Truthy(filters[key]) =>
                       ContainsIgnoringCase(StringOrEmpty(row[key]), filters[key])

\* C8: a change of the sort configuration is a header click: on the column
\* already configured it moves the direction asc -> desc -> unsorted -> asc,
\* on another column it starts that column at asc.
C8_SortCycle ==
    [][sortConfig' # sortConfig =>
          IF sortConfig'.key = sortConfig.key
          THEN <<sortConfig.direction, sortConfig'.direction>> \in
                   {<<"asc", "desc">>, <<"desc", "null">>, <<"null", "asc">>}
          ELSE sortConfig'.direction = "asc"]_vars

\* C8 witness: a column has been cycled through asc and desc back to unsorted.
C8_Witness ==
    sortConfig = [key |-> "qty", direction |-> "null"]

\* C9: while the sort direction is unsorted, the displayed rows are the rows
\* of the data that pass the filters, in the order of the data.
C9_UnsortedKeepsInputOrder ==
    ~SortActive =>
        /\ \A i, j \in 1..Len(filteredData) : i < j => filteredData[i] < filteredData[j]
        /\ {filteredData[k] : k \in 1..Len(filteredData)} =
               {i \in 1..Len(data) : rowPasses(data[i], filters, searchTerm)}

\* C9 witness: a column was cycled back to unsorted, and two rows are
\* displayed in data order that a sort on that column would exchange.
C9_Witness ==
    /\ sortConfig = [key |-> "name", direction |-> "null"]
    /\ filteredData = <<1, 2>>
    /\ IsMissing(data[1]["name"])
    /\ ~IsMissing(data[2]["name"])

\* two values the comparator does not order: both missing, or neither less
\* than the other
TiedOnSortColumn(a, b) ==
    \/ IsMissing(a) /\ IsMissing(b)
    \/ ~IsMissing(a) /\ ~IsMissing(b) /\ ~JsLess(a, b) /\ ~JsLess(b, a)

\* C10: while a sort is active, two displayed rows that tie on the sort
\* column, two rows that both lack it included, are in their data order.
C10_SortIsStable ==
    SortActive =>
        \A i, j \in 1..Len(filteredData) :
            (i < j /\ TiedOnSortColumn(DisplayedRows[i][sortConfig.key],
                                       DisplayedRows[j][sortConfig.key]))
                => filteredData[i] < filteredData[j]

\* the rank of a priority in the order critical > high > medium > low; 0 for a
\* task without one of these priorities
PriorityRank(task) ==
    LET r == priorityOrder(Get(task, "priority"))
    IN  IF r.t = "number" THEN r.n ELSE 0

\* C11: getTasks sorted by priority, descending, returns the tasks that have
\* a priority in non-increasing rank, and tasks of equal priority in the order
\* they have in the task store.
C11_PriorityDescIsStable ==
    (/\ result.op = "getTasks"
     /\ result.filters.sortBy = "priority"
     /\ result.filters.sortOrder = "desc") =>
        \A i, j \in 1..Len(result.rows) :
            (/\ i < j
             /\ PriorityRank(ReturnedTasks[i]) > 0
             /\ PriorityRank(ReturnedTasks[j]) > 0) =>
                \/ PriorityRank(ReturnedTasks[i]) > PriorityRank(ReturnedTasks[j])
                \/ /\ PriorityRank(ReturnedTasks[i]) = PriorityRank(ReturnedTasks[j])
                   /\ result.rows[i] < result.rows[j]

\* the places (section, position) at which the sections display task i
PlacesOf(i) ==
    {<<g, m>> \in (1..Len(sections)) \X (1..MaxTasks) :
        m <= Len(sections[g].members) /\ sections[g].members[m] = i}

\* C12: the sections displayed partition the filtered tasks: the render does
\* not fail, every task that passes the search is displayed in exactly one
\* section, and no other task is displayed.
C12_GroupsPartitionFiltered ==
    LET filteredTasks == filterTasks(tasks, state.searchQuery)
        passing == {filteredTasks[k] : k \in 1..Len(filteredTasks)}
    IN  /\ ~renderError
        /\ \A i \in 1..Len(tasks) :
               Cardinality(PlacesOf(i)) = (IF i \in passing THEN 1 ELSE 0)

\* the columns (by position) whose body displays task i
ColumnsShowing(i) ==
    {c \in 1..Len(columnTasks) :
        \E m \in 1..Len(columnTasks[c]) : columnTasks[c][m] = i}

RECURSIVE SumLen(_)
SumLen(seqs) == IF seqs = << >> THEN 0 ELSE Len(Head(seqs)) + SumLen(Tail(seqs))

\* C13: the board displays every input task in exactly one column, and the
\* column counts sum to the number of input tasks, whatever the columns prop.
C13_KanbanShowsEachTaskOnce ==
    /\ \A i \in 1..Len(kanbanTasks) : Cardinality(ColumnsShowing(i)) = 1
    /\ SumLen(columnTasks) = Len(kanbanTasks)

\* the keys of the domain table of a grouping field; assignee and project
\* have none
DomainKeys(groupBy) ==
    IF groupBy = "priority" THEN {Str_critical, Str_high, Str_medium, Str_low}
    ELSE IF groupBy = "status" THEN {Str_todo, Str_in_progress, Str_review, Str_done}
    ELSE {}

\* C14: in the order of the group sections, a key that is not in the domain
\* table of the grouping field comes after every key that is, and the keys
\* that are not are in lexicographic order among themselves.
C14_UnknownKeysLast ==
    state.groupBy # "none" =>
        \A i, j \in 1..Len(sections) :
            (i < j /\ sections[i].key \notin DomainKeys(state.groupBy)) =>
                /\ sections[j].key \notin DomainKeys(state.groupBy)
                /\ localeCompare(sections[i].key, sections[j].key) < 0

\* the rows a sequence of positions displays
Shown(positions) == {positions[k] : k \in 1..Len(positions)}

\* the filter maps obtained from f by removing entries or emptying them
RelaxedFilters(f) ==
    {[k \in (DOMAIN f) \ removed |-> IF k \in emptied THEN Str_empty ELSE f[k]] :
        removed \in SUBSET (DOMAIN f), emptied \in SUBSET (DOMAIN f)}

\* C15: every row displayed under the column filters is also displayed under
\* every filter map that has some of them removed or emptied.
C15_RemovingAFilterNeverShrinks ==
    \A relaxed \in RelaxedFilters(filters), engine \in SortEngines :
        Shown(filteredData) \subseteq
            Shown(filteredDataOf(data, sortConfig, relaxed, searchTerm, engine))

\* C15 witness: two column filters are active and a row is displayed; with
\* one of the two removed a second row is displayed as well.
C15_Witness ==
    /\ DOMAIN filters = FilterableKeys
    /\ \A key \in FilterableKeys : Truthy(filters[key])
    /\ Len(filteredData) = 1
    /\ \E key \in FilterableKeys, engine \in SortEngines :
           Len(filteredDataOf(data, sortConfig,
                              [k \in FilterableKeys \ {key} |-> filters[k]],
                              searchTerm, engine)) = 2

\* a term in upper case (the letters a to z)
UpperCased(term) ==
    [i \in 1..Len(term) |-> IF term[i] \in 97..122 THEN term[i] - 32 ELSE term[i]]

\* C16: under a non-empty search term the displayed rows are the rows that
\* pass the column filters and have, in some column of the column list, a
\* stringified value that contains the term ignoring case; the term in lower
\* or in upper case displays the same rows.
C16_SearchIsCaseInsensitiveSubstring ==
    Truthy(searchTerm) =>
        \A engine \in SortEngines :
            /\ Shown(filteredData) =
                   {i \in Shown(filteredDataOf(data, sortConfig, filters, Str_empty, engine)) :
                       \E c \in 1..Len(Columns) :
                           ContainsIgnoringCase(String(data[i][Columns[c].key]), searchTerm)}
            /\ \A variant \in {toLowerCase(searchTerm), UpperCased(searchTerm)} :
                   Shown(filteredData) =
                       Shown(filteredDataOf(data, sortConfig, filters, variant, engine))

\* C16 witness: the search term is an upper-case letter; a row is displayed
\* that contains it only in a column that is not filterable, and in the other
\* case; a row that contains it nowhere is not displayed.
C16_Witness ==
    /\ searchTerm = Str_D
    /\ Len(data) = 2
    /\ filteredData = <<1>>
    /\ \A c \in 1..Len(Columns) :
           ContainsIgnoringCase(String(data[1][Columns[c].key]), searchTerm)
               => ~Columns[c].filterable

\* C17: no sort changes its source: every step of the table's sorts, the
\* insight list's sorts and the getTasks calls leaves the data array, the
\* insights array and the task store as they were, and a getTasks call that
\* neither filters nor sorts returns the store in its order.
C17_SourcesAreNotMutated ==
    /\ [][/\ data' = data
          /\ insights' = insights
          /\ mockTasks' = mockTasks]_vars
    /\ []((result.op = "getTasks" /\ result.filters = NoQuery)
             => result.rows = Identity(Len(mockTasks)))

\* C17 witness: the table displays its two rows in sorted order, exchanged;
\* the insight list, whose first sort (by confidence) exchanged its two cards,
\* is sorted by type; and a getTasks call without filter or sort has returned
\* the store in its order.
C17_Witness ==
    /\ SortActive /\ filteredData = <<2, 1>>
    /\ insightSortBy = "type" /\ sortedInsights = <<1, 2>>
    /\ result.op = "getTasks" /\ result.filters = NoQuery
    /\ result.rows = Identity(Len(InitialMockTasks))

\* C18: the matched count of the footer is at most its source count, and no
\* row is counted twice: the displayed rows are distinct rows of the data.
C18_MatchedAtMostSource ==
    /\ footerCounts(data, filteredData).matched <= footerCounts(data, filteredData).source
    /\ footerCounts(data, filteredData).matched = Cardinality(Shown(filteredData))
    /\ Shown(filteredData) \subseteq 1..Len(data)

\* C18 witness: after a search edit, a filter edit and a sort click the
\* footer shows 1 of 2 items.
C18_Witness ==
    /\ Truthy(searchTerm)
    /\ \E key \in DOMAIN filters : Truthy(filters[key])
    /\ SortActive
    /\ footerCounts(data, filteredData) = [matched |-> 1, source |-> 2]

\* C19: a pagination whose pageSize is zero or negative is refused: the table
\* does not render a pagination footer, so no page count computed from that
\* pageSize.
C19_BadPageSizeFailsFast ==
    (pagination.present /\ pagination.pageSize <= 0) =>
        ~PaginationFooterShown(pagination)

\* the least number of pages of pageSize rows that hold total rows
CeilDiv(total, pageSize) ==
    CHOOSE n \in 0..total : n * pageSize >= total /\ (n = 0 \/ (n - 1) * pageSize < total)

\* C20: for a pageSize above zero the footer's page count is
\* ceil(total / pageSize), 0 for a total of 0; Next is disabled exactly when
\* the page is at or past that count, Previous exactly on page 1.
C20_PageCountIsCeiling ==
    (pagination.present /\ pagination.pageSize > 0) =>
        /\ PaginationFooterShown(pagination)
        /\ PageCount(pagination) = CeilDiv(pagination.total, pagination.pageSize)
        /\ pagination.total = 0 => PageCount(pagination) = 0
        /\ NextDisabled(pagination) <=>
               pagination.page >= CeilDiv(pagination.total, pagination.pageSize)
        /\ PreviousDisabled(pagination) <=> pagination.page = 1

\* C20 witness: the table, sorted by a click, shows page 2 of 2 for 3 rows in
\* pages of 2: Next is disabled and Previous is not.
C20_Witness ==
    /\ pagination = [present |-> TRUE, page |-> 2, pageSize |-> 2, total |-> 3]
    /\ SortActive
    /\ PageCount(pagination) = 2
    /\ NextDisabled(pagination) /\ ~PreviousDisabled(pagination)

\* a filter map without its entries whose value is empty
WithoutEmptyEntries(f) == [k \in {key \in DOMAIN f : Truthy(f[key])} |-> f[k]]

\* C21: a column filter whose value is empty does not constrain: the view
\* displayed with cleared filter boxes is the view the table computes from the
\* filter map without those entries, which is the map before they were set.
C21_EmptyFilterIsIgnored ==
    /\ \A engine \in SortEngines :
           filteredDataOf(data, sortConfig, filters, searchTerm, engine) =
               filteredDataOf(data, sortConfig, WithoutEmptyEntries(filters),
                              searchTerm, engine)
    /\ \E engine \in SortEngines :
           filteredData =
               filteredDataOf(data, sortConfig, WithoutEmptyEntries(filters),
                              searchTerm, engine)

\* C21 witness: the filter box of one column holds a value that hides a row,
\* the box of another column has been cleared, and rows whose cell in the
\* cleared column is not empty are displayed.
C21_Witness ==
    /\ DOMAIN filters = FilterableKeys
    /\ \E cleared \in FilterableKeys :
           /\ filters[cleared] = Str_empty
           /\ \A key \in FilterableKeys \ {cleared} : Truthy(filters[key])
           /\ Len(filteredData) = 1
           /\ Len(data) = 2
           /\ String(DisplayedRows[1][cleared]) # Str_empty

\* the label of the bucket a task belongs in: Uncategorized when the field is
\* absent or empty, else the value of the field
BucketLabel(task, groupBy) ==
    IF task[groupBy].t \in {"undefined", "null"} \/ task[groupBy] = StrVal(Str_empty)
    THEN Str_Uncategorized
    ELSE task[groupBy].s

\* C22: grouped by a field, every task that passes the search is displayed
\* in the section labelled Uncategorized when its value for the field is
\* absent or empty, and in the section labelled with that value otherwise.
C22_AbsentGoesToUncategorized ==
    state.groupBy # "none" =>
        LET filteredTasks == filterTasks(tasks, state.searchQuery)
        IN  \A k \in 1..Len(filteredTasks) :
                \E g \in 1..Len(sections) :
                    /\ sections[g].key = BucketLabel(tasks[filteredTasks[k]], state.groupBy)
                    /\ \E m \in 1..Len(sections[g].members) :
                           sections[g].members[m] = filteredTasks[k]

\* a before b in the natural order of the values: the smaller number, or the
\* string that has the smaller code unit at the first place where they differ
\* (a proper prefix first)
NaturallyLess(a, b) ==
    IF a.t = "number" /\ b.t = "number" THEN a.n < b.n
    ELSE /\ a.t = "string" /\ b.t = "string"
         /\ \E k \in 1..(Len(b.s)) :
                /\ \A m \in 1..(k - 1) : m <= Len(a.s) /\ a.s[m] = b.s[m]
                /\ (Len(a.s) < k \/ a.s[k] < b.s[k])

\* C23: under an ascending sort the displayed rows that have a value in the
\* sort column are in non-decreasing natural order of that value, under a
\* descending sort in non-increasing order; the displayed rows are the rows
\* that pass the filters, each once.
C23_SortedByNaturalOrder ==
    SortActive =>
        /\ \A i, j \in 1..Len(filteredData) :
               (/\ i < j
                /\ ~IsMissing(DisplayedRows[i][sortConfig.key])
                /\ ~IsMissing(DisplayedRows[j][sortConfig.key])) =>
                   IF sortConfig.direction = "asc"
                   THEN ~NaturallyLess(DisplayedRows[j][sortConfig.key],
                                       DisplayedRows[i][sortConfig.key])
                   ELSE ~NaturallyLess(DisplayedRows[i][sortConfig.key],
                                       DisplayedRows[j][sortConfig.key])
        /\ Shown(filteredData) =
               {i \in 1..Len(data) : rowPasses(data[i], filters, searchTerm)}
        /\ Cardinality(Shown(filteredData)) = Len(filteredData)

\* C23 witness: sorted ascending by the numeric column, the row with 5 is
\* displayed before the row with 10, which came first in the data.
C23_Witness ==
    /\ sortConfig = [key |-> "qty", direction |-> "asc"]
    /\ filteredData = <<2, 1>>
    /\ DisplayedRows[1]["qty"] = NumVal(5)
    /\ DisplayedRows[2]["qty"] = NumVal(10)

\* the cards of the groups, one after another in display order
RECURSIVE FlattenGroups(_)
FlattenGroups(groups) ==
    IF groups = << >> THEN << >>
    ELSE Head(groups).members \o FlattenGroups(Tail(groups))

FirstN(q, n) == SubSeq(q, 1, IF n < Len(q) THEN n ELSE Len(q))

\* C24: a LinearIssueList given maxItems = n displays the first n issues of
\* the grouped, flattened list of all its issues; the limit never picks the
\* issues before they are grouped.
C24_LimitAppliedLast ==
    issueMaxItems # 0 =>
        FlattenGroups(groupedIssues)
            = FirstN(FlattenGroups(groupedIssuesOf(issues, issueGroupBy, 0)),
                     issueMaxItems)

\* C25: an updateTaskStatus tool call that names a stored task and gives only
\* some of status, priority, assignee and dueDate sets the given fields and
\* updatedDate of that task; the fields that were not given keep their
\* values, and every other task is unchanged.
C25_OnlySuppliedFieldsChange ==
    [][\A taskId \in TaskIdInputs(mockTasks), params \in UpdateInputs :
          (UpdateTaskStatus(taskId, params) /\ findIndex(mockTasks, taskId) # 0) =>
              LET i == findIndex(mockTasks, taskId)
                  before == mockTasks[i]
                  after == mockTasks'[i]
              IN  /\ Len(mockTasks') = Len(mockTasks)
                  /\ \A j \in 1..Len(mockTasks) : j # i => mockTasks'[j] = mockTasks[j]
                  /\ \A k \in (DOMAIN before \cup DOMAIN after) \ {"updatedDate"} :
                         Get(after, k) = IF k \in DOMAIN params THEN params[k]
                                         ELSE Get(before, k)]_vars

StatusEnum == {Str_todo, Str_in_progress, Str_review, Str_done}

PriorityEnum == {Str_low, Str_medium, Str_high, Str_critical}

HasEnumValue(task, field, enum) ==
    Get(task, field).t = "string" /\ Get(task, field).s \in enum

\* C26: whatever createTask and updateTaskStatus tool calls were made, every
\* task that getTasks returns has a status among todo, in-progress, review,
\* done and a priority among low, medium, high, critical.
C26_ReturnedTasksHaveEnumFields ==
    result.op = "getTasks" =>
        \A k \in 1..Len(ReturnedTasks) :
            /\ HasEnumValue(ReturnedTasks[k], "status", StatusEnum)
            /\ HasEnumValue(ReturnedTasks[k], "priority", PriorityEnum)

\* C27: no two tasks of the store have the same id, whatever createTask
\* calls were made and whenever they were made; an id names one task.
C27_TaskIdsUnique ==
    \A i, j \in 1..Len(mockTasks) :
        mockTasks[i].id = mockTasks[j].id => i = j

\* C28: updateTaskStatus with an id that no stored task has raises the not
\* found error and leaves the store as it was: the same tasks with the same
\* field values in the same order.
C28_NotFoundLeavesStore ==
    [][\A taskId \in TaskIdInputs(mockTasks), params \in UpdateInputs :
          (UpdateTaskStatus(taskId, params) /\ findIndex(mockTasks, taskId) = 0) =>
              /\ mockTasks' = mockTasks
              /\ result'.error
              /\ result'.rows = << >>]_vars

C28_Witness ==
    /\ result.op = "updateTaskStatus"
    /\ result.error
    /\ Len(mockTasks) = Len(InitialMockTasks) + 1
    /\ \A i \in 1..Len(mockTasks) : mockTasks[i].id # StrVal(Str_task_0)

\* the filters a query gives: a non-empty status, priority, assignee, project
SuppliedFilters(f) ==
    {k \in {"status", "priority", "assignee", "project"} :
        f[k].t = "string" /\ f[k].s # << >>}

\* the task has a dueDate and it is a time before the clock's reading
DueEarlier(task, clock) ==
    /\ HasDueDate(task)
    /\ NewDate(Get(task, "dueDate").s).t = "number"
    /\ NewDate(Get(task, "dueDate").s).n < clock

IsDone(task) == Get(task, "status") = StrVal(Str_done)

MatchesQuery(task, f, clock) ==
    /\ \A k \in SuppliedFilters(f) : Get(task, k) = f[k]
    /\ f.overdue => DueEarlier(task, clock) /\ ~IsDone(task)

\* C30: getTasks returns a task exactly when it equals every filter given
\* among status, priority, assignee and project and, for an overdue query,
\* has a dueDate before now and is not done; an overdue query returns no
\* task that is done or has no dueDate.  (The steps that leave the clock and
\* the count of calls alone and end with a getTasks result are the getTasks
\* calls.)
C30_FiltersAreConjunctive ==
    [][(result'.op = "getTasks" /\ calls' = calls /\ now' = now) =>
              LET f == result'.filters
                  returned == {result'.rows[k] : k \in 1..Len(result'.rows)}
              IN  /\ Cardinality(returned) = Len(result'.rows)
                  /\ \A i \in 1..Len(mockTasks') :
                         i \in returned <=> MatchesQuery(mockTasks'[i], f, now)
                  /\ f.overdue =>
                         \A i \in returned :
                             ~IsDone(mockTasks'[i]) /\ HasDueDate(mockTasks'[i])]_vars

\* an overdue query with an assignee has returned a task, and left out an
\* overdue task of another assignee, a done task and a task without dueDate
C30_Witness ==
    /\ result.op = "getTasks"
    /\ result.filters.overdue
    /\ SuppliedFilters(result.filters) = {"assignee"}
    /\ result.rows # << >>
    /\ \E i \in 1..Len(mockTasks) :
           /\ \A k \in 1..Len(result.rows) : result.rows[k] # i
           /\ DueEarlier(mockTasks[i], now) /\ ~IsDone(mockTasks[i])
    /\ \E i \in 1..Len(mockTasks) : IsDone(mockTasks[i]) /\ HasDueDate(mockTasks[i])
    /\ \E i \in 1..Len(mockTasks) : ~HasDueDate(mockTasks[i])

\* the rows that pass the filters, sorted afterwards: positions of d
sortOfFiltered(d, cfg, f, term, engine) ==
    LET keep(i) == rowPasses(d[i], f, term)
        kept == SelectSeq(Identity(Len(d)), keep)
        rows == [k \in 1..Len(kept) |-> d[kept[k]]]
        order == sortedData(rows, cfg, engine)
    IN  [k \in 1..Len(kept) |-> kept[order[k]]]

\* C29: filtering the sorted rows, as the table does, gives the sequence
\* that sorting the filtered rows gives, whatever the data, the sort
\* configuration, the filters and the search term, rows without the sort
\* column included.
C29_SortAndFilterCommute ==
    \A engine \in SortEngines :
        filteredDataOf(data, sortConfig, filters, searchTerm, engine)
            = sortOfFiltered(data, sortConfig, filters, searchTerm, engine)

====
